---- MODULE Spec2Model ----
\* Model of the burndown engine of src/burndown_chart.py: the BurndownChart
\* constructor, update_progress, get_progress_summary, add_task and
\* Task.complete, over exact rational arithmetic and a discrete clock.
EXTENDS Integers, Sequences, FiniteSets, TLC

VARIABLES phase, project_name, start_date, end_date, total_story_points,
          tasks, progress_log, df, last,
          trello, http, st_errors

vars == <<phase, project_name, start_date, end_date, total_story_points,
          tasks, progress_log, df, last, trello, http, st_errors>>

\* The fields of the project, and the state of the task-board integration:
\* the TrelloIntegration object, the exchanges with api.trello.com in the
\* order they were made, and the messages shown with st.error.
project_vars == <<phase, project_name, start_date, end_date, total_story_points,
                  tasks, progress_log, df>>
trello_vars == <<trello, http, st_errors>>

----------------------------------------------------------------------------
\* Bounds of the model.

\* Clock ticks per calendar day (timestamps carry a time of day).
DayTicks == 2
\* The start timestamp offered to the constructor.
StartTick == 1
\* The valid total offered to the constructor; completed points go one beyond.
MaxTotal == 2
\* Cap on the number of progress entries in the main specification.
MaxLog == 2
\* The non-zero estimate and actual effort given to tasks.
MaxPoints == 1
\* Cap on the number of tasks.
MaxTasks == 2
\* Cap on the number of progress entries in the task specification.
MaxLogTasks == 1
\* Requests made to the task board in one behaviour.
MaxRequests == 2

\* timedelta(days=14) of the end-date adjustment.
AdjustDays == 14

----------------------------------------------------------------------------
\* Python values.

None == [type |-> "NoneType"]
Str(s) == [type |-> "str", s |-> s]
Datetime(t) == [type |-> "datetime", t |-> t]

RECURSIVE GCD(_, _)
GCD(a, b) == IF b = 0 THEN a ELSE GCD(b, a % b)

Abs(n) == IF n < 0 THEN -n ELSE n

\* A finite number is the reduced fraction n/d with d > 0; d = 0 is NaN.
Rat(n, d) ==
    IF d = 0 THEN [type |-> "number", n |-> 0, d |-> 0]
    ELSE LET g == GCD(Abs(n), Abs(d))
             s == IF d < 0 THEN -1 ELSE 1
         IN [type |-> "number", n |-> (s * n) \div g, d |-> (s * d) \div g]

Num(n) == Rat(n, 1)
NaN == Rat(0, 0)

IsNumber(v) == v.type = "number"
IsNaN(v) == v.type = "number" /\ v.d = 0

NumSub(a, b) == IF IsNaN(a) \/ IsNaN(b) THEN NaN
                ELSE Rat(a.n * b.d - b.n * a.d, a.d * b.d)
NumAdd(a, b) == IF IsNaN(a) \/ IsNaN(b) THEN NaN
                ELSE Rat(a.n * b.d + b.n * a.d, a.d * b.d)
NumMul(a, b) == IF IsNaN(a) \/ IsNaN(b) THEN NaN
                ELSE Rat(a.n * b.n, a.d * b.d)
\* Callers test the divisor for zero first (Python raises ZeroDivisionError).
NumDiv(a, b) == IF IsNaN(a) \/ IsNaN(b) THEN NaN
                ELSE Rat(a.n * b.d, a.d * b.n)
NumAbs(a) == IF IsNaN(a) THEN NaN ELSE Rat(Abs(a.n), a.d)
\* Every ordered comparison with NaN is False.
NumLt(a, b) == ~IsNaN(a) /\ ~IsNaN(b) /\ a.n * b.d < b.n * a.d
NumLe(a, b) == ~IsNaN(a) /\ ~IsNaN(b) /\ a.n * b.d <= b.n * a.d
NumGt(a, b) == NumLt(b, a)
IsZero(a) == a.type = "number" /\ a.d # 0 /\ a.n = 0

\* bool(v): None, 0 and "" are falsy; NaN and every datetime are truthy.
Truthy(v) ==
    CASE v.type = "NoneType" -> FALSE
      [] v.type = "number" -> ~IsZero(v)
      [] v.type = "str" -> v.s # ""
      [] OTHER -> TRUE

\* a or b
PyOr(a, b) == IF Truthy(a) THEN a ELSE b

----------------------------------------------------------------------------
\* Messages of the BurndownChartError raised by each check.

ErrName == "Project name must be a non-empty string"
ErrDates == "Start and end dates must be datetime objects"
ErrTotal == "Total story points must be a positive number"
ErrDate == "Date must be a datetime object"
ErrPoints == "Completed story points must be a non-negative number"
ErrExceed == "Completed story points cannot exceed total story points"
ErrTask == "Must provide a Task object"
ErrComplexity == "Invalid complexity. Choose from: easy, medium, hard"
\* complexity.lower() on a value that is no string
AttributeError == "AttributeError: object has no attribute 'lower'"
ZeroDivisionError == "ZeroDivisionError: float division by zero"
NoError == "ok"

\* The most recent call: its result or the error it raised, with its
\* arguments; a raising update_progress or add_task records no arguments.
Call(op, args, raised, ret) == [op |-> op, args |-> args, raised |-> raised, ret |-> ret]

----------------------------------------------------------------------------
\* BurndownChart._create_initial_dataframe

\* len(pd.date_range(start, end)): daily steps from start while <= end.
TotalDays(s, e) == ((e.t - s.t) \div DayTicks) + 1

date_range(s, e) == [k \in 1..TotalDays(s, e) |-> Datetime(s.t + (k - 1) * DayTicks)]

\* total - (total * day / (total_days - 1)), for total_days > 1
ideal_burndown(total, day, total_days) ==
    NumSub(total, NumDiv(NumMul(total, Num(day)), Num(total_days - 1)))

\* The dataframe, or the error the list comprehension raises when the range
\* has a single day (the divisor total_days - 1 is 0).
create_initial_dataframe(s, e, total) ==
    LET n == TotalDays(s, e)
        dates == date_range(s, e)
    IN IF n = 1 THEN [raised |-> ZeroDivisionError, df |-> <<>>]
       ELSE [raised |-> NoError,
             df |-> [k \in 1..n |->
                       [Date |-> dates[k],
                        Ideal_Burndown |-> ideal_burndown(total, k - 1, n),
                        Actual_Burndown |-> ideal_burndown(total, k - 1, n),
                        Estimated_Burndown |-> ideal_burndown(total, k - 1, n)]]]

----------------------------------------------------------------------------
\* BurndownChart.__init__

\* Variant: only an end before the start is adjusted.
AdjustEnd_StrictlyBefore(s, e) ==
    IF s.t > e.t THEN Datetime(s.t + AdjustDays * DayTicks) ELSE e

\* The end date after the automatic adjustment.
AdjustEnd(s, e) == IF s.t >= e.t THEN Datetime(s.t + AdjustDays * DayTicks) ELSE e

\* The first check that fails, in the order of the code.
InitError(name, s, e, total) ==
    IF ~Truthy(name) \/ name.type # "str" THEN ErrName
    ELSE IF s.type # "datetime" \/ e.type # "datetime" THEN ErrDates
    ELSE IF ~IsNumber(total) \/ NumLe(total, Num(0)) THEN ErrTotal
    ELSE create_initial_dataframe(s, AdjustEnd(s, e), total).raised

BurndownChart_init(name, s, e, total) ==
    /\ phase = "new"
    /\ UNCHANGED trello_vars
    /\ LET err == InitError(name, s, e, total)
       IN IF err # NoError
          THEN /\ phase' = "failed"
               /\ last' = Call("__init__", <<name, s, e, total>>, err, None)
               /\ UNCHANGED <<project_name, start_date, end_date,
                              total_story_points, tasks, progress_log, df>>
          ELSE /\ phase' = "ready"
               /\ project_name' = name
               /\ start_date' = s
               /\ end_date' = AdjustEnd(s, e)
               /\ total_story_points' = total
               /\ tasks' = <<>>
               /\ progress_log' = <<>>
               /\ df' = create_initial_dataframe(s, AdjustEnd(s, e), total).df
               /\ last' = Call("__init__", <<name, s, e, total>>, NoError, None)

----------------------------------------------------------------------------
\* BurndownChart.update_progress

\* Variant: the check against the total is missing.
UpdateError_NoExceedCheck(date, points, total) ==
    IF date.type # "datetime" THEN ErrDate
    ELSE IF ~IsNumber(points) \/ NumLt(points, Num(0)) THEN ErrPoints
    ELSE NoError

\* The first validation that fails.
UpdateError(date, points, total) ==
    IF date.type # "datetime" THEN ErrDate
    ELSE IF ~IsNumber(points) \/ NumLt(points, Num(0)) THEN ErrPoints
    ELSE IF NumGt(points, total) THEN ErrExceed
    ELSE NoError

Min(a, b) == IF a < b THEN a ELSE b
Max(a, b) == IF a > b THEN a ELSE b

\* Variant: min and max exchanged.
ClampDate_Swapped(date, s, e) ==
    IF date.t < s.t \/ date.t > e.t
    THEN Datetime(Min(Max(date.t, e.t), s.t))
    ELSE date

\* date = max(min(date, end), start) when outside the timeline
ClampDate(date, s, e) ==
    IF date.t < s.t \/ date.t > e.t
    THEN Datetime(Max(Min(date.t, e.t), s.t))
    ELSE date

progress_entry(date, points, description) ==
    [date |-> date, completed_points |-> points, description |-> description]

\* Variant: the ledger is kept in date order.
RECURSIVE log_append_ByDate(_, _)
log_append_ByDate(log, entry) ==
    IF log = <<>> THEN <<entry>>
    ELSE IF log[Len(log)].date.t <= entry.date.t THEN Append(log, entry)
    ELSE Append(log_append_ByDate(SubSeq(log, 1, Len(log) - 1), entry), log[Len(log)])

\* self.progress_log.append(progress_entry)
log_append(log, entry) == Append(log, entry)

\* Variant: the estimated curve is written along with the actual one.
UpdateDataframe_AlsoEstimated(frame, date, points, total) ==
    [k \in 1..Len(frame) |->
        IF frame[k].Date = date
        THEN [frame[k] EXCEPT !.Actual_Burndown = NumSub(total, points),
                              !.Estimated_Burndown = NumSub(total, points)]
        ELSE frame[k]]

\* Variant: the completed points are taken off the row's current value.
UpdateDataframe_Decrement(frame, date, points, total) ==
    [k \in 1..Len(frame) |->
        IF frame[k].Date = date
        THEN [frame[k] EXCEPT !.Actual_Burndown = NumSub(frame[k].Actual_Burndown, points)]
        ELSE frame[k]]

\* Variant: the mask compares calendar days instead of timestamps.
UpdateDataframe_SameDay(frame, date, points, total) ==
    [k \in 1..Len(frame) |->
        IF frame[k].Date.t <= date.t /\ date.t < frame[k].Date.t + DayTicks
        THEN [frame[k] EXCEPT !.Actual_Burndown = NumSub(total, points)]
        ELSE frame[k]]

\* df.loc[df['Date'] == date, 'Actual_Burndown'] = total - completed
UpdateDataframe(frame, date, points, total) ==
    [k \in 1..Len(frame) |->
        IF frame[k].Date = date
        THEN [frame[k] EXCEPT !.Actual_Burndown = NumSub(total, points)]
        ELSE frame[k]]

update_progress(date, points, description) ==
    /\ phase = "ready"
    /\ UNCHANGED trello_vars
    /\ LET err == UpdateError(date, points, total_story_points)
       IN IF err # NoError
          THEN /\ last' = Call("update_progress", <<>>, err, None)
               /\ UNCHANGED <<progress_log, df>>
          ELSE LET d == ClampDate(date, start_date, end_date)
               IN /\ progress_log' =
                        log_append(progress_log, progress_entry(d, points, description))
                  /\ df' = UpdateDataframe(df, d, points, total_story_points)
                  /\ last' = Call("update_progress", <<date, points, description>>, NoError, None)
    /\ UNCHANGED <<phase, project_name, start_date, end_date,
                   total_story_points, tasks>>

----------------------------------------------------------------------------
\* BurndownChart.estimate_complexity_points

\* A string whose characters matter, as the sequence of its characters.
Text(chars) == [type |-> "str", s |-> chars]

UpperLetters == <<"A", "B", "C", "D", "E", "F", "G", "H", "I", "J", "K", "L", "M",
                  "N", "O", "P", "Q", "R", "S", "T", "U", "V", "W", "X", "Y", "Z">>
LowerLetters == <<"a", "b", "c", "d", "e", "f", "g", "h", "i", "j", "k", "l", "m",
                  "n", "o", "p", "q", "r", "s", "t", "u", "v", "w", "x", "y", "z">>

\* str.lower(), character by character
LowerChar(c) ==
    IF \E i \in 1..Len(UpperLetters) : UpperLetters[i] = c
    THEN LowerLetters[CHOOSE i \in 1..Len(UpperLetters) : UpperLetters[i] = c]
    ELSE c
str_lower(chars) == [i \in 1..Len(chars) |-> LowerChar(chars[i])]

Easy == <<"e", "a", "s", "y">>
Medium == <<"m", "e", "d", "i", "u", "m">>
Hard == <<"h", "a", "r", "d">>

\* complexity_map: the keys and the (min_points, max_points) of each
complexity_keys == {Easy, Medium, Hard}
complexity_map(key) ==
    CASE key = Easy -> <<1, 3>>
      [] key = Medium -> <<3, 8>>
      [] key = Hard -> <<8, 13>>

\* The error of the call, if any: .lower() on a non-string, then the lookup.
EstimateError(complexity) ==
    IF complexity.type # "str" THEN AttributeError
    ELSE IF str_lower(complexity.s) \notin complexity_keys THEN ErrComplexity
    ELSE NoError

\* np.random.randint(min_points, max_points + 1): any integer of the range
estimate_complexity_points(complexity) ==
    /\ phase = "ready"
    /\ UNCHANGED trello_vars
    /\ LET err == EstimateError(complexity)
       IN IF err # NoError
          THEN last' = Call("estimate_complexity_points", <<complexity>>, err, None)
          ELSE LET range == complexity_map(str_lower(complexity.s))
               IN \E r \in range[1]..range[2] :
                     last' = Call("estimate_complexity_points", <<complexity>>,
                                  NoError, Num(r))
    /\ UNCHANGED <<phase, project_name, start_date, end_date,
                   total_story_points, tasks, progress_log, df>>

----------------------------------------------------------------------------
\* Task

Task_init(name, estimated_points, actual_points, complexity) ==
    [type |-> "Task",
     name |-> name,
     estimated_points |-> estimated_points,
     actual_points |-> actual_points,
     complexity |-> complexity,
     status |-> "Not Started",
     start_date |-> None,
     end_date |-> None]

\* Task.complete; now is the value of datetime.now() at the call.
Task_complete(task, actual_points, end, now) ==
    [task EXCEPT !.status = "Completed",
                 !.actual_points = PyOr(actual_points, task.estimated_points),
                 !.end_date = PyOr(end, now)]

\* BurndownChart.add_task
add_task(task) ==
    /\ phase = "ready"
    /\ UNCHANGED trello_vars
    /\ IF task.type # "Task"
       THEN /\ last' = Call("add_task", <<>>, ErrTask, None)
            /\ UNCHANGED tasks
       ELSE /\ tasks' = Append(tasks, task)
            /\ last' = Call("add_task", <<task>>, NoError, task)
    /\ UNCHANGED <<phase, project_name, start_date, end_date,
                   total_story_points, progress_log, df>>

\* task.complete(...) on the i-th task held by the project
complete(i, actual_points, end, now) ==
    /\ phase = "ready"
    /\ UNCHANGED trello_vars
    /\ i \in 1..Len(tasks)
    /\ tasks' = [tasks EXCEPT ![i] = Task_complete(tasks[i], actual_points, end, now)]
    /\ last' = Call("complete", <<i, actual_points, end>>, NoError, None)
    /\ UNCHANGED <<phase, project_name, start_date, end_date,
                   total_story_points, progress_log, df>>

----------------------------------------------------------------------------
\* BurndownChart.get_progress_summary

RECURSIVE SumSeq(_)
SumSeq(q) == IF q = <<>> THEN Num(0) ELSE NumAdd(q[1], SumSeq(Tail(q)))

\* sum(task.estimated_points for task in tasks)
total_estimated(ts) == SumSeq([k \in 1..Len(ts) |-> ts[k].estimated_points])

\* task.actual_points or task.estimated_points
ActualOrEstimate(task) == PyOr(task.actual_points, task.estimated_points)

\* sum(task.actual_points or task.estimated_points for task in tasks)
total_actual(ts) == SumSeq([k \in 1..Len(ts) |-> ActualOrEstimate(ts[k])])

\* abs(est - act) / est * 100 if est else 0
variance(ts) ==
    IF Truthy(total_estimated(ts))
    THEN NumMul(NumDiv(NumAbs(NumSub(total_estimated(ts), total_actual(ts))),
                       total_estimated(ts)),
                Num(100))
    ELSE Num(0)

\* Variant: the entry with the latest date (the last one among equals).
latest_progress_ByDate(log) ==
    LET i == CHOOSE i \in 1..Len(log) :
                 \A j \in 1..Len(log) :
                     \/ log[j].date.t < log[i].date.t
                     \/ (log[j].date.t = log[i].date.t /\ j <= i)
    IN log[i]

\* progress_log[-1]
latest_progress(log) == log[Len(log)]

\* Variant: the variance is computed before the ledger is looked at.
progress_summary_VarianceFirst(log, ts, total) ==
    [total_story_points |-> total,
     completed_story_points |->
         IF log = <<>> THEN Num(0) ELSE latest_progress(log).completed_points,
     progress_percentage |->
         IF log = <<>> THEN Num(0)
         ELSE NumMul(NumDiv(latest_progress(log).completed_points, total), Num(100)),
     estimated_vs_actual_variance |-> variance(ts)]

progress_summary(log, ts, total) ==
    IF log = <<>>
    THEN [total_story_points |-> total,
          completed_story_points |-> Num(0),
          progress_percentage |-> Num(0),
          estimated_vs_actual_variance |-> Num(0)]
    ELSE [total_story_points |-> total,
          completed_story_points |-> latest_progress(log).completed_points,
          progress_percentage |->
              NumMul(NumDiv(latest_progress(log).completed_points, total), Num(100)),
          estimated_vs_actual_variance |-> variance(ts)]

get_progress_summary ==
    /\ phase = "ready"
    /\ UNCHANGED trello_vars
    /\ last' = Call("get_progress_summary", <<>>, NoError,
                    progress_summary(progress_log, tasks, total_story_points))
    /\ UNCHANGED <<phase, project_name, start_date, end_date,
                   total_story_points, tasks, progress_log, df>>

----------------------------------------------------------------------------
\* Inputs.

Names == {Str(""), Str("Sample Project"), Num(7), None}
StartInputs == {Datetime(StartTick), Str("2024-01-01")}
\* Ends before, at and after the start: within the first day, on a day
\* boundary, past a day boundary, two days on.
EndOffsets == {-1, 0, 1, DayTicks, DayTicks + 1, 2 * DayTicks}
EndInputs == {Datetime(StartTick + k) : k \in EndOffsets} \cup {None}
TotalInputs == {Num(-1), Num(0), Num(MaxTotal), Str("100")}

\* Dates before the start, on a row, between rows, at the end, past the end.
DateInputs ==
    {Datetime(t) : t \in {start_date.t - 1, start_date.t, start_date.t + 1,
                          start_date.t + DayTicks, end_date.t, end_date.t + 1}}
    \cup {Str("2024-01-07")}
PointInputs ==
    {Num(-1), Num(0), Num(1), total_story_points,
     NumAdd(total_story_points, Num(1)), NaN, Str("30"), None}
Descriptions == {None, Str("note")}

EstimateInputs == {Num(0), Num(MaxPoints)}
InitialActualInputs == {None, Num(0), Num(MaxPoints)}
ActualInputs == {None, Num(-1), Num(0), Num(MaxPoints + 1)}
\* datetime.now() at completion, and a supplied completion date before it
Now == Datetime(StartTick + 3 * DayTicks)
CompletionDates == {None, Datetime(StartTick + DayTicks)}

TaskInputs ==
    {Task_init(Str("Backend"), est, act, Str("hard")) :
        est \in EstimateInputs, act \in InitialActualInputs}
    \cup {Str("Backend")}

Init ==
    /\ phase = "new"
    /\ project_name = None
    /\ start_date = None
    /\ end_date = None
    /\ total_story_points = None
    /\ tasks = <<>>
    /\ progress_log = <<>>
    /\ df = <<>>
    /\ last = Call("none", <<>>, NoError, None)
    /\ trello = None
    /\ http = <<>>
    /\ st_errors = <<>>

Construct ==
    \E name \in Names, s \in StartInputs, e \in EndInputs, total \in TotalInputs :
        BurndownChart_init(name, s, e, total)

Update ==
    /\ phase = "ready"
    /\ Len(progress_log) < MaxLog
    /\ \E date \in DateInputs, points \in PointInputs, description \in Descriptions :
        update_progress(date, points, description)

Summary == get_progress_summary

Next == Construct \/ Update \/ Summary

Spec == Init /\ [][Next]_vars

----------------------------------------------------------------------------
\* The task specification: one project with a short ledger and the task
\* operations.

AddTask ==
    /\ Len(tasks) < MaxTasks
    /\ \E task \in TaskInputs : add_task(task)

CompleteTask ==
    \E i \in 1..Len(tasks), actual_points \in ActualInputs, end \in CompletionDates :
        complete(i, actual_points, end, Now)

ConstructT ==
    \E total \in TotalInputs :
        BurndownChart_init(Str("Sample Project"), Datetime(StartTick),
                           Datetime(StartTick + 2 * DayTicks), total)

UpdateT ==
    /\ phase = "ready"
    /\ Len(progress_log) < MaxLogTasks
    /\ \E points \in {Num(0), total_story_points, NumAdd(total_story_points, Num(1))} :
        update_progress(start_date, points, None)

NextTasks == ConstructT \/ UpdateT \/ AddTask \/ CompleteTask \/ Summary

SpecTasks == Init /\ [][NextTasks]_vars

----------------------------------------------------------------------------
\* Properties.

IsDatetime(v) == v.type = "datetime"
\* A finite number below zero, and a finite number above the total.
Negative(v) == IsNumber(v) /\ ~IsNaN(v) /\ v.n < 0
AboveTotal(v) ==
    IsNumber(v) /\ ~IsNaN(v) /\ v.n * total_story_points.d > total_story_points.n * v.d
\* value / total * 100
PercentOfTotal(v) ==
    IF IsNaN(v) THEN NaN
    ELSE Rat(100 * v.n * total_story_points.d, v.d * total_story_points.n)
\* total - value
TotalMinus(v) ==
    IF IsNaN(v) THEN NaN
    ELSE Rat(total_story_points.n * v.d - v.n * total_story_points.d,
             total_story_points.d * v.d)
LastEntry == progress_log[Len(progress_log)]

\* C1: with a non-empty ledger, the summary's completed_story_points is the
\* completed points of the entry appended last (whatever the dates and values
\* of the other entries), and progress_percentage is that value / total * 100.
C1_SummaryIsLastAppended ==
    (last.op = "get_progress_summary" /\ progress_log # <<>>) =>
        /\ last.ret.completed_story_points = LastEntry.completed_points
        /\ last.ret.progress_percentage = PercentOfTotal(LastEntry.completed_points)

\* A summary taken when the entry appended last has both an earlier date and
\* fewer points than the entry before it.
C1_Witness ==
    /\ last.op = "get_progress_summary"
    /\ Len(progress_log) = 2
    /\ progress_log[2].date.t < progress_log[1].date.t
    /\ NumLt(progress_log[2].completed_points, progress_log[1].completed_points)

\* The validation failures of update_progress.
FailsValidation(date, points) ==
    \/ ~IsDatetime(date)
    \/ ~IsNumber(points)
    \/ Negative(points)
    \/ AboveTotal(points)

\* The error the validation of update_progress finds for every failing input.
C2_Rejects ==
    \A date \in DateInputs, points \in PointInputs :
        FailsValidation(date, points) =>
            UpdateError(date, points, total_story_points) =
                (IF ~IsDatetime(date) THEN ErrDate
                 ELSE IF ~IsNumber(points) \/ Negative(points) THEN ErrPoints
                 ELSE ErrExceed)

\* No call with a failing input returns.
C2_ReturnedIsValid ==
    (last.op = "update_progress" /\ last.raised = NoError)
        => ~FailsValidation(last.args[1], last.args[2])

\* A call that raised changed nothing.
C2_RaisedStep ==
    (last'.op = "update_progress" /\ last'.raised # NoError)
        => /\ last'.raised \in {ErrDate, ErrPoints, ErrExceed}
           /\ progress_log' = progress_log
           /\ df' = df
           /\ tasks' = tasks
           /\ <<phase, project_name, start_date, end_date, total_story_points>>'
                = <<phase, project_name, start_date, end_date, total_story_points>>

\* C2: an update_progress call that fails validation (date not a datetime,
\* points negative or not a number, points above the total) raises its error
\* and changes neither the ledger nor any row of the series nor anything else
\* of the project.
C2_FailedUpdateChangesNothing ==
    /\ [](phase = "ready" => (C2_Rejects /\ C2_ReturnedIsValid))
    /\ [][C2_RaisedStep]_vars

\* An update rejected for exceeding the total after an accepted update has
\* changed a row.
C2_Witness ==
    /\ last.op = "update_progress"
    /\ last.raised = ErrExceed
    /\ progress_log # <<>>
    /\ \E k \in 1..Len(df) : df[k].Actual_Burndown # df[k].Ideal_Burndown

\* Positions of the ledger entries dated exactly as row k.
EntriesAt(k) == {i \in 1..Len(progress_log) : progress_log[i].date = df[k].Date}
MaxOf(S) == CHOOSE i \in S : \A j \in S : j <= i

C3_Rows ==
    \A k \in 1..Len(df) :
        IF EntriesAt(k) # {}
        THEN df[k].Actual_Burndown =
                 TotalMinus(progress_log[MaxOf(EntriesAt(k))].completed_points)
        ELSE df[k].Actual_Burndown = df[k].Ideal_Burndown

C3_UnmatchedStep ==
    (/\ last'.op = "update_progress"
     /\ last'.raised = NoError
     /\ Len(progress_log') = Len(progress_log) + 1
     /\ \A k \in 1..Len(df) : df[k].Date # progress_log'[Len(progress_log')].date)
        => df' = df

\* C3: a row's actual value is total minus the completed points of the entry
\* appended last among those dated exactly as the row, and the row's ideal
\* value when no entry has its date; an accepted update whose date is no row's
\* date changes no row and is appended to the ledger all the same.
C3_ActualFollowsLedger ==
    /\ [](phase = "ready" => C3_Rows)
    /\ [][C3_UnmatchedStep]_vars
    /\ [][(last'.op = "update_progress" /\ last'.raised = NoError)
             => Len(progress_log') = Len(progress_log) + 1]_vars

\* Two entries on one row with different points, a row without an entry, and
\* the later entry's date is that of the first row.
C3_Witness ==
    /\ Len(progress_log) = 2
    /\ progress_log[1].date = progress_log[2].date
    /\ progress_log[1].completed_points # progress_log[2].completed_points
    /\ \E k \in 1..Len(df) : EntriesAt(k) = {1, 2}
    /\ \E k \in 1..Len(df) : EntriesAt(k) = {}

\* Constructor arguments that pass every check of the constructor.
ValidName(name) == name.type = "str" /\ name.s # ""
ValidTotal(total) == IsNumber(total) /\ ~IsNaN(total) /\ total.n > 0
ValidInit(name, s, e, total) ==
    ValidName(name) /\ IsDatetime(s) /\ IsDatetime(e) /\ ValidTotal(total)

\* Whole days from s to e.
DaysBetween(s, e) == (e.t - s.t) \div DayTicks
\* total * (1 - d / (n - 1))
IdealAt(total, d, n) == Rat(total.n * (n - 1 - d), total.d * (n - 1))

C4_Series(s, e, total, frame) ==
    LET n == DaysBetween(s, e) + 1
    IN /\ Len(frame) = n
       /\ \A k \in 1..n :
            /\ frame[k].Date = Datetime(s.t + (k - 1) * DayTicks)
            /\ frame[k].Actual_Burndown = frame[k].Ideal_Burndown
            /\ frame[k].Estimated_Burndown = frame[k].Ideal_Burndown
       /\ n > 1 =>
            /\ frame[1].Ideal_Burndown = total
            /\ frame[n].Ideal_Burndown = Num(0)
            /\ \A k \in 1..n : frame[k].Ideal_Burndown = IdealAt(total, k - 1, n)

\* The arguments of the constructor call.
InitName == last.args[1]
InitStart == last.args[2]
InitEnd == last.args[3]
InitTotal == last.args[4]
ValidInitCall ==
    last.op = "__init__" /\ ValidInit(InitName, InitStart, InitEnd, InitTotal)

\* C4: every construction with valid arguments yields a series of
\* daysBetween(start, end) + 1 rows at one-day steps from the start (end as
\* stored, after the adjustment), whose ideal values run linearly from the
\* total to 0 when there is more than one row, and whose actual and estimated
\* values equal the ideal ones.
C4_SeriesOfEveryValidConstruction ==
    ValidInitCall =>
        /\ phase = "ready"
        /\ C4_Series(start_date, end_date, InitTotal, df)

\* C5: a construction whose start is before its end by less than a day
\* succeeds with a one-row series whose ideal value is the total.
C5_OneRowSeries ==
    (ValidInitCall /\ InitStart.t < InitEnd.t /\ InitEnd.t - InitStart.t < DayTicks)
        => /\ phase = "ready"
           /\ Len(df) = 1
           /\ df[1].Ideal_Burndown = InitTotal

\* C6: a construction with valid arguments and start >= end succeeds, storing
\* the start as given and the end 14 days after it, with a series of 15 rows;
\* with start < end the end is stored as given.
C6_EndAdjusted ==
    ValidInitCall =>
        IF InitStart.t >= InitEnd.t
        THEN /\ phase = "ready"
             /\ start_date = InitStart
             /\ end_date = Datetime(InitStart.t + 14 * DayTicks)
             /\ Len(df) = 15
        ELSE phase = "ready" => (start_date = InitStart /\ end_date = InitEnd)

\* A project built from equal start and end.
C6_Witness ==
    /\ ValidInitCall
    /\ InitStart = InitEnd
    /\ phase = "ready"
    /\ Len(df) = 15

\* Points that pass the validation of update_progress.
ValidPoints(points) == IsNumber(points) /\ ~Negative(points) /\ ~AboveTotal(points)

C7_EntriesInRange ==
    \A i \in 1..Len(progress_log) :
        /\ start_date.t <= progress_log[i].date.t
        /\ progress_log[i].date.t <= end_date.t

C7_Accepts ==
    \A date \in DateInputs, points \in PointInputs :
        (IsDatetime(date) /\ ValidPoints(points))
            => UpdateError(date, points, total_story_points) = NoError

C7_Recorded ==
    (last.op = "update_progress" /\ last.raised = NoError) =>
        LastEntry.date =
            (IF last.args[1].t < start_date.t THEN start_date
             ELSE IF last.args[1].t > end_date.t THEN end_date
             ELSE last.args[1])

\* C7: update_progress with valid points and a datetime outside [start, end]
\* does not raise and appends an entry dated at the nearer end of the range;
\* a date inside the range is recorded as given; every entry of the ledger is
\* dated within [start, end].
C7_DatesClamped ==
    phase = "ready" => (C7_EntriesInRange /\ C7_Accepts /\ C7_Recorded)

\* An update dated after the end, after one dated before the start.
C7_Witness ==
    /\ last.op = "update_progress"
    /\ last.raised = NoError
    /\ last.args[1].t > end_date.t
    /\ Len(progress_log) = 2
    /\ progress_log[1].date = start_date
    /\ progress_log[2].date = end_date

\* The series after one more update_progress(date, points).
SeriesAfter(frame, date, points) ==
    UpdateDataframe(frame, ClampDate(date, start_date, end_date), points,
                    total_story_points)

C8_SecondApplication ==
    \A date \in DateInputs, points \in PointInputs :
        (IsDatetime(date) /\ ValidPoints(points)) =>
            SeriesAfter(SeriesAfter(df, date, points), date, points)
                = SeriesAfter(df, date, points)

C8_RepeatedStep ==
    (last.op = "update_progress" /\ last.raised = NoError /\ last' = last)
        => (df' = df /\ Len(progress_log') = Len(progress_log) + 1)

C8_AppendStep ==
    (last'.op = "update_progress" /\ last'.raised = NoError)
        => /\ Len(progress_log') = Len(progress_log) + 1
           /\ SubSeq(progress_log', 1, Len(progress_log)) = progress_log

\* C8: from any state, a second update_progress with the same valid date and
\* points leaves every row as the first left it, and each of the two calls
\* makes the ledger one entry longer.
C8_UpdateIdempotentOnSeries ==
    /\ [](phase = "ready" => C8_SecondApplication)
    /\ [][C8_RepeatedStep]_vars
    /\ [][C8_AppendStep]_vars

\* The same update made twice, on a row whose value it changed.
C8_Witness ==
    /\ last.op = "update_progress"
    /\ last.raised = NoError
    /\ Len(progress_log) = 2
    /\ progress_log[1] = progress_log[2]
    /\ start_date.t < LastEntry.date.t
    /\ LastEntry.date.t < end_date.t
    /\ \E k \in 1..Len(df) :
          /\ df[k].Date = LastEntry.date
          /\ df[k].Actual_Burndown # df[k].Ideal_Burndown

\* The task the last complete call was made on.
CompletedTask == tasks[last.args[1]]

\* C9: complete sets the status to Completed, the actual points to the
\* supplied value whenever one is supplied (0 and negative values included)
\* and to the task's estimate only when none is supplied, and the end date to
\* the supplied date when one is supplied.
C9_CompleteStoresSupplied ==
    last.op = "complete" =>
        /\ CompletedTask.status = "Completed"
        /\ IF last.args[2] # None
           THEN CompletedTask.actual_points = last.args[2]
           ELSE CompletedTask.actual_points = CompletedTask.estimated_points
        /\ last.args[3] # None => CompletedTask.end_date = last.args[3]

RECURSIVE SumOver(_, _)
SumOver(F(_), n) == IF n = 0 THEN Num(0) ELSE NumAdd(SumOver(F, n - 1), F(n))

\* What a task contributes to the actual sum: its actual points when it has
\* any, its estimate when it has none.
Contribution(k) ==
    IF tasks[k].actual_points # None
    THEN tasks[k].actual_points
    ELSE tasks[k].estimated_points
Estimate(k) == tasks[k].estimated_points
SumEstimated == SumOver(Estimate, Len(tasks))
SumActual == SumOver(Contribution, Len(tasks))

\* C10: with a non-empty ledger the summary's variance is
\* abs(sumEstimated - sumActual) / sumEstimated * 100 over all tasks, a task
\* with actual points (0 included) contributing them and a task without
\* contributing its estimate, and 0 when sumEstimated is 0; the call does not
\* raise.
C10_Variance ==
    (last.op = "get_progress_summary" /\ progress_log # <<>>) =>
        /\ last.raised = NoError
        /\ last.ret.estimated_vs_actual_variance =
             (IF IsZero(SumEstimated) THEN Num(0)
              ELSE NumMul(NumDiv(NumAbs(NumSub(SumEstimated, SumActual)), SumEstimated),
                          Num(100)))

C11_ZeroSummary ==
    (last.op = "get_progress_summary" /\ progress_log = <<>>) =>
        /\ last.raised = NoError
        /\ last.ret.total_story_points = total_story_points
        /\ last.ret.completed_story_points = Num(0)
        /\ last.ret.progress_percentage = Num(0)
        /\ last.ret.estimated_vs_actual_variance = Num(0)

C11_SummaryStep ==
    last'.op = "get_progress_summary" =>
        (progress_log' = progress_log /\ tasks' = tasks /\ df' = df)

\* C11: with an empty ledger the summary has 0 completed points, 0 percent
\* and 0 variance and carries the project's total, whatever the tasks are;
\* get_progress_summary changes neither the ledger nor the tasks nor the series.
C11_EmptyLedgerSummary ==
    /\ [](phase = "ready" => C11_ZeroSummary)
    /\ [][C11_SummaryStep]_vars

\* A summary over an empty ledger while a completed task's actual points
\* differ from its estimate.
C11_Witness ==
    /\ last.op = "get_progress_summary"
    /\ progress_log = <<>>
    /\ \E k \in 1..Len(tasks) :
          /\ tasks[k].status = "Completed"
          /\ tasks[k].actual_points # tasks[k].estimated_points
          /\ ~IsZero(tasks[k].estimated_points)

----------------------------------------------------------------------------
\* The estimation specification: estimates are drawn and tasks are created
\* from them.

ComplexityInputs ==
    {Text(Easy), Text(<<"M", "e", "d", "i", "u", "m">>), Text(<<"H", "A", "R", "D">>),
     Text(<<"h", "u", "g", "e">>), Text(<<>>), None, Num(5)}

EstimatePoints ==
    \E complexity \in ComplexityInputs : estimate_complexity_points(complexity)

\* add_task(Task(name, estimated_points=estimate_complexity_points(c), complexity=c))
AddEstimatedTask ==
    /\ Len(tasks) < MaxTasks
    /\ last.op = "estimate_complexity_points"
    /\ last.raised = NoError
    /\ add_task(Task_init(Str("Backend"), last.ret, None, last.args[1]))

NextEstimate == ConstructT \/ EstimatePoints \/ AddEstimatedTask

SpecEstimate == Init /\ [][NextEstimate]_vars

\* The position of a letter in the alphabet, in either case; 0 for other
\* characters.
LetterIndex(c) ==
    IF \E i \in 1..Len(UpperLetters) : UpperLetters[i] = c \/ LowerLetters[i] = c
    THEN CHOOSE i \in 1..Len(UpperLetters) : UpperLetters[i] = c \/ LowerLetters[i] = c
    ELSE 0
SameIgnoringCase(a, b) ==
    /\ Len(a) = Len(b)
    /\ \A i \in 1..Len(a) :
          a[i] = b[i] \/ (LetterIndex(a[i]) # 0 /\ LetterIndex(a[i]) = LetterIndex(b[i]))
IsTier(v, tier) == v.type = "str" /\ SameIgnoringCase(v.s, tier)
InRange(v, lo, hi) == IsNumber(v) /\ v.d = 1 /\ lo <= v.n /\ v.n <= hi

\* C12: estimate_complexity_points returns an integer of 1..3 for easy, 3..8
\* for medium and 8..13 for hard, the value compared without regard to case,
\* and for every other value (other strings, the empty string, values that
\* are no string) raises the invalid-complexity error and no other error.
C12_RangeOrInvalidComplexity ==
    last.op = "estimate_complexity_points" =>
        LET v == last.args[1]
        IN IF IsTier(v, Easy) THEN last.raised = NoError /\ InRange(last.ret, 1, 3)
           ELSE IF IsTier(v, Medium) THEN last.raised = NoError /\ InRange(last.ret, 3, 8)
           ELSE IF IsTier(v, Hard) THEN last.raised = NoError /\ InRange(last.ret, 8, 13)
           ELSE last.raised = ErrComplexity

\* C13: construction raises its BurndownChartError exactly when the name is
\* empty or no string, or a date is no datetime, or the total is no number or
\* not positive, the checks made in that order (the total also after an end
\* adjustment); every other construction succeeds.
C13_FailsExactlyWhenInvalid ==
    last.op = "__init__" =>
        IF ~ValidName(InitName) THEN phase = "failed" /\ last.raised = ErrName
        ELSE IF ~IsDatetime(InitStart) \/ ~IsDatetime(InitEnd)
             THEN phase = "failed" /\ last.raised = ErrDates
        ELSE IF ~ValidTotal(InitTotal) THEN phase = "failed" /\ last.raised = ErrTotal
        ELSE phase = "ready" /\ last.raised = NoError

----------------------------------------------------------------------------
\* The combined specification: every public operation on one project.

UpdateA ==
    /\ phase = "ready"
    /\ Len(progress_log) < MaxLog
    /\ \E date \in {Datetime(start_date.t - 1), start_date, Datetime(start_date.t + 1),
                    Datetime(end_date.t + 1), Str("2024-01-07")},
          points \in {Num(0), total_story_points, NumAdd(total_story_points, Num(1))} :
        update_progress(date, points, Str("note"))

AddTaskA ==
    /\ Len(tasks) < MaxTasks
    /\ \E task \in {Task_init(Str("Backend"), Num(MaxPoints), None, Str("hard")),
                    Str("Backend")} :
        add_task(task)

CompleteTaskA ==
    \E i \in 1..Len(tasks), actual_points \in {None, Num(MaxPoints + 1)} :
        complete(i, actual_points, None, Now)

EstimateA ==
    \E complexity \in {Text(Easy), None} : estimate_complexity_points(complexity)

NextAll == ConstructT \/ UpdateA \/ AddTaskA \/ CompleteTaskA \/ Summary \/ EstimateA

SpecAll == Init /\ [][NextAll]_vars

\* The date of an update as the ledger records it.
NearestInRange(date) ==
    IF date.t < start_date.t THEN start_date
    ELSE IF date.t > end_date.t THEN end_date
    ELSE date

\* C14: every update_progress that returns leaves the ledger as the old
\* ledger followed by one entry (clamped date, completed points, description);
\* every other step of every operation leaves the ledger as it is, so no entry
\* is ever removed, moved or modified.
C14_LedgerAppendOnly ==
    [][phase = "ready" =>
         IF last'.op = "update_progress" /\ last'.raised = NoError
         THEN progress_log' =
                  progress_log \o
                      <<[date |-> NearestInRange(last'.args[1]),
                         completed_points |-> last'.args[2],
                         description |-> last'.args[3]]>>
         ELSE progress_log' = progress_log]_vars

\* Two entries in falling date order, still so after a task was completed.
C14_Witness ==
    /\ last.op = "complete"
    /\ Len(progress_log) = 2
    /\ progress_log[2].date.t < progress_log[1].date.t

C15_Fixed ==
    /\ total_story_points' = total_story_points
    /\ start_date' = start_date
    /\ end_date' = end_date
    /\ Len(df') = Len(df)
    /\ \A k \in 1..Len(df) :
          /\ df'[k].Date = df[k].Date
          /\ df'[k].Ideal_Burndown = df[k].Ideal_Burndown
          /\ df'[k].Estimated_Burndown = df[k].Estimated_Burndown

C15_UpdateFrame ==
    last'.op = "update_progress" =>
        /\ tasks' = tasks
        /\ \A k \in 1..Len(df) :
              df'[k].Actual_Burndown # df[k].Actual_Burndown
                  => /\ last'.raised = NoError
                     /\ df[k].Date = NearestInRange(last'.args[1])

\* C15: after construction no operation changes the total, the start, the
\* end, a row's date, a row's ideal value or a row's estimated value;
\* update_progress changes at most the ledger and the actual value of the rows
\* dated as the clamped date, and no task.
C15_FrameOfOperations ==
    [][phase = "ready" => (C15_Fixed /\ C15_UpdateFrame)]_vars

\* An update dated past the end moved the last row's actual value while the
\* project holds a completed task.
C15_Witness ==
    /\ last.op = "update_progress"
    /\ last.raised = NoError
    /\ last.args[1].t > end_date.t
    /\ df[Len(df)].Actual_Burndown # df[Len(df)].Ideal_Burndown
    /\ \E k \in 1..Len(tasks) : tasks[k].status = "Completed"

Within(x, lo, hi) == IsNumber(x) /\ NumLe(lo, x) /\ NumLe(x, hi)

\* C16: in every state of a constructed project each ledger entry's completed
\* points and each row's actual remaining value lie in [0, total_story_points],
\* and the progress_percentage a summary returns lies in [0, 100].
C16_ValuesInRange ==
    phase = "ready" =>
        /\ \A k \in 1..Len(progress_log) :
              Within(progress_log[k].completed_points, Num(0), total_story_points)
        /\ \A k \in 1..Len(df) :
              Within(df[k].Actual_Burndown, Num(0), total_story_points)
        /\ last.op = "get_progress_summary" =>
              Within(last.ret.progress_percentage, Num(0), Num(100))

----------------------------------------------------------------------------
\* trello_integration.py: the task-board integration.

ErrCredentials ==
    "Trello API Key and Token are required. Please set them in environment variables or Streamlit secrets."

\* TrelloIntegrationError(f"Unsupported HTTP method: {method}")
UnsupportedMethod(method) ==
    [exc |-> "TrelloIntegrationError", msg |-> <<"Unsupported HTTP method: ", method>>]

\* No exception.
NoException == [exc |-> "none", msg |-> <<>>]

\* What raise_for_status raises for a response of that status.
HTTPError(response) ==
    [exc |-> "HTTPError",
     msg |-> <<IF response.status < 500 THEN "Client Error for url: "
               ELSE "Server Error for url: ">>]

\* TrelloIntegrationError(f"API Request Error: {e}")
ApiRequestError(e) ==
    [exc |-> "TrelloIntegrationError", msg |-> <<"API Request Error: ">> \o e.msg]

\* st.error(f"Trello API Request Failed: {e}")
RequestFailedMessage(e) == <<"Trello API Request Failed: ">> \o e.msg

\* st.error(f"Failed to update Trello card progress: {e}")
UpdateFailedMessage(e) == <<"Failed to update Trello card progress: ">> \o e.msg

\* st.error(f"Failed to create Trello card: {e}")
CreateFailedMessage(e) == <<"Failed to create Trello card: ">> \o e.msg

\* A card as the board's JSON describes it; has_desc tells whether the
\* object has a 'desc' key.
Card(id, name, has_desc, desc) ==
    [type |-> "dict", id |-> id, name |-> name, shortUrl |-> <<"https://trello.com/c/", id>>,
     has_desc |-> has_desc, desc |-> desc]

\* response.raise_for_status() raises for a 4xx or 5xx status.
IsBadStatus(response) == response.status >= 400

\* TrelloIntegration.__init__: the credentials given, else those of the
\* environment or the secrets.
TrelloIntegration_init(api_key, token, env_key, env_token) ==
    /\ trello = None
    /\ LET key == PyOr(api_key, env_key)
           tok == PyOr(token, env_token)
       IN IF ~Truthy(key) \/ ~Truthy(tok)
          THEN /\ last' = Call("TrelloIntegration", <<>>, ErrCredentials, None)
               /\ UNCHANGED trello
          ELSE /\ trello' = [type |-> "TrelloIntegration", api_key |-> key, token |-> tok]
               /\ last' = Call("TrelloIntegration", <<>>, NoError, None)
    /\ UNCHANGED <<http, st_errors, project_vars>>

\* _make_trello_request: the exchange made (none for a method other than GET
\* and POST), the message shown, the exception raised and the JSON returned.
\* The response is what the board answers if the request is sent.
make_trello_request(self, endpoint, method, params, response) ==
    LET request ==
            [method |-> method,
             url |-> <<"https://api.trello.com/1", endpoint>>,
             params |-> [key |-> self.api_key, token |-> self.token, extra |-> params],
             response |-> response]
    IN IF method \notin {"GET", "POST"}
       THEN [sent |-> <<>>, errors |-> <<>>,
             raised |-> UnsupportedMethod(method), ret |-> None]
       ELSE IF IsBadStatus(response)
       THEN [sent |-> <<request>>,
             errors |-> <<RequestFailedMessage(HTTPError(response))>>,
             raised |-> ApiRequestError(HTTPError(response)), ret |-> None]
       ELSE [sent |-> <<request>>, errors |-> <<>>,
             raised |-> NoException, ret |-> response.json]

\* f"{current_desc}\n\nProgress Update:\n- Completed Points: {completed_points}\n- Status: {status}"
updated_description(current_desc, completed_points, status) ==
    <<current_desc, "\n\nProgress Update:\n- Completed Points: ", completed_points,
      "\n- Status: ", status>>

\* The f-string of create_burndown_card.
card_description(estimated_points, complexity) ==
    <<"Burndown Chart Task Details:\n- Estimated Points: ", estimated_points,
      "\n- Complexity: ", complexity>>

\* update_card_progress: fetch is the board's answer to the GET, write its
\* answer to the request that carries the new description.
update_card_progress(card_id, completed_points, status, fetch, write) ==
    /\ trello # None
    /\ LET endpoint == <<"/cards/", card_id>>
           get == make_trello_request(trello, endpoint, "GET", None, fetch)
       IN IF get.raised # NoException
          THEN /\ http' = http \o get.sent
               /\ st_errors' = st_errors \o get.errors \o <<UpdateFailedMessage(get.raised)>>
          ELSE LET card == get.ret
                   current_desc == IF card.has_desc THEN card.desc ELSE ""
                   updated_desc == updated_description(current_desc, completed_points, status)
                   put == make_trello_request(trello, endpoint, "PUT",
                                              [desc |-> updated_desc], write)
               IN /\ http' = http \o get.sent \o put.sent
                  /\ st_errors' =
                         st_errors \o get.errors \o put.errors \o
                             (IF put.raised # NoException
                              THEN <<UpdateFailedMessage(put.raised)>>
                              ELSE <<>>)
    /\ last' = Call("update_card_progress", <<card_id, completed_points, status>>,
                    NoError, None)
    /\ UNCHANGED <<trello, project_vars>>

\* create_burndown_card
create_burndown_card(board_id, list_id, task_name, estimated_points, complexity, response) ==
    /\ trello # None
    /\ LET card_data == [name |-> task_name,
                         desc |-> card_description(estimated_points, complexity),
                         idList |-> list_id]
           post == make_trello_request(trello, <<"/cards">>, "POST", card_data, response)
       IN /\ http' = http \o post.sent
          /\ IF post.raised # NoException
             THEN /\ st_errors' = st_errors \o post.errors \o <<CreateFailedMessage(post.raised)>>
                  /\ last' = Call("create_burndown_card", <<>>, NoError, None)
             ELSE /\ st_errors' = st_errors \o post.errors
                  /\ last' = Call("create_burndown_card", <<>>, NoError,
                                  [name |-> post.ret.name, id |-> post.ret.id,
                                   url |-> post.ret.shortUrl])
    /\ UNCHANGED <<trello, project_vars>>

CredentialInputs == {None, Str("secret")}
EnvironmentInputs == {None, Str(""), Str("from-env")}
CardIds == {"c1", "c2"}
StatusInputs == {"In Progress", "Completed"}
NotFound == [status |-> 404, json |-> None]
Answer(json) == [status |-> 200, json |-> json]
CardResponses(card_id) ==
    {Answer(Card(card_id, "Backend", TRUE, "Burndown Chart Task Details")),
     Answer(Card(card_id, "Backend", FALSE, "")),
     NotFound}

Authenticate ==
    \E api_key \in CredentialInputs, token \in CredentialInputs,
       env_key \in EnvironmentInputs, env_token \in EnvironmentInputs :
        TrelloIntegration_init(api_key, token, env_key, env_token)

UpdateCard ==
    /\ Len(http) < MaxRequests
    /\ \E card_id \in CardIds, status \in StatusInputs :
          \E fetch \in CardResponses(card_id), write \in CardResponses(card_id) :
              update_card_progress(card_id, Num(MaxPoints), status, fetch, write)

CreateCard ==
    /\ Len(http) < MaxRequests
    /\ \E response \in CardResponses("c1") :
          create_burndown_card("b1", "l1", "Backend", Num(MaxPoints), "hard", response)

NextTrello == Authenticate \/ UpdateCard \/ CreateCard

SpecTrello == Init /\ [][NextTrello]_vars

\* The exchanges made by the step.
NewExchanges == (Len(http) + 1)..Len(http')

FetchedDescription(json) == IF json.has_desc THEN json.desc ELSE ""

\* C17: whenever update_card_progress(card_id, completed_points, status) gets
\* a successful answer to its request for the card, the same call then sends a
\* write request for that card whose description is the fetched description
\* followed by the progress-update text: the fetch is followed by the update
\* being sent.
C17_FetchThenWrite ==
    [][last'.op = "update_card_progress" =>
         \A k \in NewExchanges :
            (http'[k].method = "GET" /\ ~IsBadStatus(http'[k].response)) =>
                \E j \in NewExchanges :
                      /\ j > k
                      /\ http'[j].method \in {"PUT", "POST"}
                      /\ http'[j].url = http'[k].url
                      /\ http'[j].params.extra =
                             [desc |-> <<FetchedDescription(http'[k].response.json),
                                         "\n\nProgress Update:\n- Completed Points: ",
                                         last'.args[2], "\n- Status: ", last'.args[3]>>]]_vars

====
